---- MODULE Spec2Model ----
(***************************************************************************)
(* Model of src/src/anotacion_dpej.py: the annotator that locates the      *)
(* terms of a legal lexicon in plain text.  Strings are sequences of       *)
(* one-character strings; offsets are 0-based and half-open as in Python.  *)
(***************************************************************************)
EXTENDS Integers, Sequences, FiniteSets, TLC

VARIABLES
    pc,             \* where the program stands: "input" before a function under study is applied,
                    \* "inflected" / "built" / "matched" / "filtered" after it; in execute_annotator
                    \* "idle" (between files), "scan", "write"
    expression,     \* argument of generate_inflections / build_inflected_patterns / find_offsets_and_forms
    text,           \* argument text of find_offsets_and_forms
    inflections,    \* value returned by generate_inflections
    patterns,       \* value returned by build_inflected_patterns
    matches,        \* value returned by find_offsets_and_forms
    data,           \* argument of filter_offsets_across_words
    filtered_data,  \* value returned by filter_offsets_across_words
    dje_data,       \* the lexicon loaded by execute_annotator
    files,          \* the .txt files of path_articulos: path -> contents
    todo,           \* the paths iterdir() has not yielded yet
    path,           \* the file being annotated
    record,         \* index in dje_data of the next concept_record of search_in_dle
    resultados,     \* the results dict of the file being annotated
    ind,            \* the identifier counter of the write loop
    cursor,         \* number of (term, offset) pairs the write loop has visited
    out             \* the .ann files written: path -> lines

termVars == <<expression, text, inflections, patterns, matches>>
resolverVars == <<data, filtered_data>>
annotatorVars == <<dje_data, files, todo, path, record, resultados, ind, cursor, out>>
vars == <<pc, termVars, resolverVars, annotatorVars>>

(***************************************************************************)
(* Bounds of the model.                                                    *)
(***************************************************************************)
MaxExprLen == 3      \* longest expression given to the inflection functions
MaxTermLen == 2      \* longest expression given to the matcher
MaxTextLen == 4      \* longest text given to the matcher
MaxPos == 2          \* largest offset of a span given to the resolver
MaxSpans == 3        \* most spans, over all words, of an index given to the resolver
MaxEntries == 2      \* most entries of the lexicon
MaxDocLen == 3       \* longest document

(***************************************************************************)
(* Characters.                                                             *)
(***************************************************************************)
UnaccentedVowels == {"a", "e", "i", "o", "u"}
AccentedVowels == {"á", "é", "í", "ó", "ú"}
UpperCase == {"A", "E", "S", "Z", "Y", "Á"}
Letters == UnaccentedVowels \cup AccentedVowels \cup UpperCase \cup {"c", "s", "y", "z"}
Whitespace == {" "}
\* characters re.escape prefixes with a backslash (of the ones the model uses)
SpecialChars == {" ", "\\", ".", "|"}

\* str.lower() of one character, as re.IGNORECASE compares
Lower(c) ==
    CASE c = "A" -> "a"
      [] c = "E" -> "e"
      [] c = "S" -> "s"
      [] c = "Z" -> "z"
      [] c = "Y" -> "y"
      [] c = "Á" -> "á"
      [] OTHER -> c

\* \w of a str pattern: alphanumerics and the underscore
IsWordChar(c) == c \in Letters \cup {"_"}

Min(S) == CHOOSE m \in S : \A n \in S : m <= n

\* all strings over alphabet A of length at most n
StringsUpTo(A, n) == UNION {[1..k -> A] : k \in 0..n}

endswith(word, suffixes) == Len(word) > 0 /\ word[Len(word)] \in suffixes

\* word[:-1]
DropLast(word) == SubSeq(word, 1, Len(word) - 1)

(***************************************************************************)
(* generate_inflections                                                    *)
(***************************************************************************)
\* the accented vowel kept in the plural
generate_inflections_keep_accent(word) ==
    IF endswith(word, UnaccentedVowels)
    THEN <<word, word \o <<"s">>>>
    ELSE IF endswith(word, {"z"})
    THEN <<word, DropLast(word) \o <<"c", "e", "s">>>>
    ELSE <<word, word \o <<"e", "s">>>>

generate_inflections(word) ==
    IF endswith(word, UnaccentedVowels)
    THEN <<word, word \o <<"s">>>>
    ELSE IF endswith(word, AccentedVowels)
    THEN <<word, DropLast(word) \o <<"e", "s">>>>
    ELSE IF endswith(word, {"z"})
    THEN <<word, DropLast(word) \o <<"c", "e", "s">>>>
    ELSE <<word, word \o <<"e", "s">>>>

(***************************************************************************)
(* build_inflected_patterns                                                *)
(***************************************************************************)
RECURSIVE SplitFrom(_, _, _)
SplitFrom(s, i, cur) ==
    IF i > Len(s)
    THEN (IF cur = <<>> THEN <<>> ELSE <<cur>>)
    ELSE IF s[i] \in Whitespace
    THEN (IF cur = <<>> THEN <<>> ELSE <<cur>>) \o SplitFrom(s, i + 1, <<>>)
    ELSE SplitFrom(s, i + 1, Append(cur, s[i]))

\* str.split(): the maximal runs of non-whitespace characters
split(s) == SplitFrom(s, 1, <<>>)

RECURSIVE re_escape(_)
re_escape(s) ==
    IF s = <<>>
    THEN <<>>
    ELSE (IF Head(s) \in SpecialChars THEN <<"\\", Head(s)>> ELSE <<Head(s)>>)
         \o re_escape(Tail(s))

RECURSIVE JoinSpace(_)
\* ' '.join(parts)
JoinSpace(parts) ==
    IF parts = <<>>
    THEN <<>>
    ELSE IF Len(parts) = 1
    THEN parts[1]
    ELSE parts[1] \o <<" ">> \o JoinSpace(Tail(parts))

\* zip(*lists): as many tuples as the shortest list has elements, none for no list
ZipLen(lists) ==
    IF lists = <<>> THEN 0 ELSE Min({Len(lists[w]) : w \in 1..Len(lists)})

build_inflected_patterns(expr) ==
    LET words == split(expr)
    IN  IF Len(words) = 1
        THEN LET forms == generate_inflections(expr)
             IN  [k \in 1..Len(forms) |-> re_escape(forms[k])]
        ELSE LET inflected_forms == [w \in 1..Len(words) |-> generate_inflections(words[w])]
             IN  [k \in 1..ZipLen(inflected_forms) |->
                     JoinSpace([w \in 1..Len(words) |-> re_escape(inflected_forms[w][k])])]

(***************************************************************************)
(* find_offsets_and_forms                                                  *)
(***************************************************************************)
RECURSIVE regex_literal(_)
\* the literal string one alternative of the compiled pattern stands for
regex_literal(p) ==
    IF p = <<>>
    THEN <<>>
    ELSE IF Head(p) = "\\"
    THEN <<p[2]>> \o regex_literal(SubSeq(p, 3, Len(p)))
    ELSE <<Head(p)>> \o regex_literal(Tail(p))

\* '|'.join(patterns) inside (?:...): no pattern leaves the one empty alternative
Alternatives(pats) ==
    IF pats = <<>> THEN << <<>> >> ELSE [k \in 1..Len(pats) |-> regex_literal(pats[k])]

IsWordAt(txt, j) == j >= 1 /\ j <= Len(txt) /\ IsWordChar(txt[j])

\* \b at offset i: exactly one of the characters around it is a word character
WordBoundary(txt, i) == IsWordAt(txt, i) # IsWordAt(txt, i + 1)

\* \b(?:lit)\b matches at offset s, ignoring case
MatchAt(txt, s, lit) ==
    /\ s + Len(lit) <= Len(txt)
    /\ WordBoundary(txt, s)
    /\ \A k \in 1..Len(lit) : Lower(txt[s + k]) = Lower(lit[k])
    /\ WordBoundary(txt, s + Len(lit))

RECURSIVE finditer_lexicon_form(_, _, _)
\* the form reported is the lexicon's pattern, not the matched text
finditer_lexicon_form(alts, txt, pos) ==
    IF pos > Len(txt)
    THEN <<>>
    ELSE LET hits == {k \in 1..Len(alts) : MatchAt(txt, pos, alts[k])}
         IN  IF hits = {}
             THEN finditer_lexicon_form(alts, txt, pos + 1)
             ELSE LET end == pos + Len(alts[Min(hits)])
                  IN  << <<(<<pos, end>>), alts[Min(hits)]>> >>
                      \o finditer_lexicon_form(alts, txt, IF end > pos THEN end ELSE pos + 1)

RECURSIVE finditer(_, _, _)
\* re.finditer: leftmost match, first alternative that succeeds, resuming at its end
finditer(alts, txt, pos) ==
    IF pos > Len(txt)
    THEN <<>>
    ELSE LET hits == {k \in 1..Len(alts) : MatchAt(txt, pos, alts[k])}
         IN  IF hits = {}
             THEN finditer(alts, txt, pos + 1)
             ELSE LET end == pos + Len(alts[Min(hits)])
                  IN  << <<(<<pos, end>>), SubSeq(txt, pos + 1, end)>> >>
                      \o finditer(alts, txt, IF end > pos THEN end ELSE pos + 1)

find_offsets_and_forms(txt, expr) ==
    finditer(Alternatives(build_inflected_patterns(expr)), txt, 0)

(***************************************************************************)
(* filter_offsets_across_words.  A dict is the sequence of its items in    *)
(* insertion order, each [word, offsets], the words pairwise distinct.     *)
(***************************************************************************)
Keys(d) == {d[i].word : i \in 1..Len(d)}

RECURSIVE ScanOffsets(_, _, _, _)
\* the loop of lines 81-87 over one other word's offsets; flag is is_contained
ScanOffsets(other_offsets, start1, end1, flag) ==
    IF other_offsets = <<>>
    THEN flag
    ELSE LET start2 == Head(other_offsets)[1]
             end2 == Head(other_offsets)[2]
         IN  IF start1 >= start2 /\ end1 <= end2
             THEN IF end2 - start2 > end1 - start1
                  THEN TRUE
                  ELSE ScanOffsets(Tail(other_offsets), start1, end1, TRUE)
             ELSE ScanOffsets(Tail(other_offsets), start1, end1, flag)

RECURSIVE ScanWords(_, _, _, _, _, _)
\* the loop of lines 77-87 over every word of data
ScanWords(d, j, current_word, start1, end1, flag) ==
    IF j > Len(d)
    THEN flag
    ELSE IF current_word = d[j].word
    THEN ScanWords(d, j + 1, current_word, start1, end1, flag)
    ELSE ScanWords(d, j + 1, current_word, start1, end1,
                   ScanOffsets(d[j].offsets, start1, end1, flag))

\* is_contained set only by a strictly longer span of another word
is_contained_longer_only(d, current_word, current_offset) ==
    \E j \in 1..Len(d) :
        /\ d[j].word # current_word
        /\ \E m \in 1..Len(d[j].offsets) :
               /\ current_offset[1] >= d[j].offsets[m][1]
               /\ current_offset[2] <= d[j].offsets[m][2]
               /\ d[j].offsets[m][2] - d[j].offsets[m][1] > current_offset[2] - current_offset[1]

is_contained(d, current_word, current_offset) ==
    ScanWords(d, 1, current_word, current_offset[1], current_offset[2], FALSE)

filter_offsets_across_words(d) ==
    [i \in 1..Len(d) |->
        [word |-> d[i].word,
         offsets |-> SelectSeq(d[i].offsets,
                               LAMBDA o : ~is_contained(d, d[i].word, o))]]

(***************************************************************************)
(* search_in_dle                                                           *)
(***************************************************************************)
\* the default of the termtype parameter, the only value execute_annotator passes
termtype == "Lab."

\* a span already recorded under the key is not appended again
DictAppend_dedup(results, form, positions) ==
    IF form \notin Keys(results)
    THEN Append(results, [word |-> form, offsets |-> <<positions>>])
    ELSE [i \in 1..Len(results) |->
             IF results[i].word = form
                /\ \A m \in 1..Len(results[i].offsets) : results[i].offsets[m] # positions
             THEN [results[i] EXCEPT !.offsets = Append(@, positions)]
             ELSE results[i]]

\* lines 114-117 and 122-125: results[form].append(positions), the key created when absent
DictAppend(results, form, positions) ==
    IF form \notin Keys(results)
    THEN Append(results, [word |-> form, offsets |-> <<positions>>])
    ELSE [i \in 1..Len(results) |->
             IF results[i].word = form
             THEN [results[i] EXCEPT !.offsets = Append(@, positions)]
             ELSE results[i]]

RECURSIVE AddResults(_, _)
\* the loops of lines 112-117 and 120-125 over the matches of one term
AddResults(results, term_results) ==
    IF term_results = <<>>
    THEN results
    ELSE AddResults(DictAppend(results, Head(term_results)[2], Head(term_results)[1]),
                    Tail(term_results))

RECURSIVE ScanSubLemas(_, _, _)
\* the loop of lines 108-117 over the SubLemas of one record
ScanSubLemas(results, txt, sublemas) ==
    IF sublemas = <<>>
    THEN results
    ELSE ScanSubLemas(AddResults(results, find_offsets_and_forms(txt, Head(sublemas).Text)),
                      txt, Tail(sublemas))

\* the SubLemas before the Name
ScanTerms(results, txt, concept_record) ==
    AddResults(
        IF "SubLemas" \in DOMAIN concept_record
        THEN ScanSubLemas(results, txt, concept_record.SubLemas)
        ELSE results,
        find_offsets_and_forms(txt, concept_record.Name))

\* one iteration of the loop of line 101
ScanConceptRecord(results, txt, concept_record) ==
    LET domains == [i \in 1..Len(concept_record.Body) |-> concept_record.Body[i].Type]
    IN  IF \E i \in 1..Len(domains) : domains[i] = termtype
        THEN ScanTerms(results, txt, concept_record)
        ELSE results

(***************************************************************************)
(* execute_annotator                                                       *)
(***************************************************************************)
\* the dict of the previous file carried over
StaleResults == resultados

\* line 149: the dict a file starts from
FreshResults == <<>>

\* line 156: the first identifier of a file
FirstInd == 1

RECURSIVE lstrip(_)
lstrip(s) == IF s # <<>> /\ Head(s) \in Whitespace THEN lstrip(Tail(s)) ELSE s

RECURSIVE rstrip(_)
rstrip(s) == IF s # <<>> /\ s[Len(s)] \in Whitespace THEN rstrip(DropLast(s)) ELSE s

\* the term written as it is
strip_nothing(s) == s

\* str.strip()
strip(s) == rstrip(lstrip(s))

RECURSIVE Items(_)
\* the (term, offset) pairs in the order the loops of lines 157-158 visit them
Items(d) ==
    IF d = <<>>
    THEN <<>>
    ELSE [k \in 1..Len(d[1].offsets) |-> <<d[1].word, d[1].offsets[k]>>] \o Items(Tail(d))

\* lines 159-162: one annotation line
FormatLine(i, term, offset) ==
    [term_id |-> <<"T", i>>, term_type |-> "concept",
     start |-> offset[1], end |-> offset[2], text |-> strip(term)]

\* lines 142-149: iterdir() yields a file, in no particular order
OpenFile ==
    /\ pc = "idle"
    /\ \E p \in todo :
           /\ path' = p
           /\ todo' = todo \ {p}
    /\ resultados' = FreshResults
    /\ record' = 1
    /\ pc' = "scan"
    /\ UNCHANGED <<termVars, resolverVars, dje_data, files, ind, cursor, out>>

\* lines 101-125: search_in_dle handles one concept_record
ScanRecord ==
    /\ pc = "scan"
    /\ record <= Len(dje_data)
    /\ resultados' = ScanConceptRecord(resultados, files[path], dje_data[record])
    /\ record' = record + 1
    /\ UNCHANGED <<pc, termVars, resolverVars, dje_data, files, todo, path, ind, cursor, out>>

\* lines 126-128 and 150-156: the dict is filtered and returned, the output file opened
FilterResults ==
    /\ pc = "scan"
    /\ record > Len(dje_data)
    /\ resultados' = filter_offsets_across_words(resultados)
    /\ out' = [p \in DOMAIN out \cup {path} |-> IF p = path THEN <<>> ELSE out[p]]
    /\ ind' = FirstInd
    /\ cursor' = 0
    /\ pc' = "write"
    /\ UNCHANGED <<termVars, resolverVars, dje_data, files, todo, path, record>>

\* lines 157-163: one line written
WriteLine ==
    /\ pc = "write"
    /\ cursor < Len(Items(resultados))
    /\ LET item == Items(resultados)[cursor + 1]
       IN  out' = [out EXCEPT ![path] = Append(@, FormatLine(ind, item[1], item[2]))]
    /\ ind' = ind + 1
    /\ cursor' = cursor + 1
    /\ UNCHANGED <<pc, termVars, resolverVars, dje_data, files, todo, path, record, resultados>>

\* line 164: f.close()
CloseFile ==
    /\ pc = "write"
    /\ cursor = Len(Items(resultados))
    /\ pc' = "idle"
    /\ UNCHANGED <<termVars, resolverVars, annotatorVars>>

NextAnnotator == OpenFile \/ ScanRecord \/ FilterResults \/ WriteLine \/ CloseFile

Names == {<<"a">>, <<"A", " ">>}
SubLemasChoices == {<< [Text |-> <<"a", " ", "a">>], [Text |-> <<"A">>] >>}
Bodies == {<< [Type |-> "Gral."], [Type |-> "Lab."] >>, << [Type |-> "Gral."] >>}

\* the entries of the lexicon, with and without SubLemas
ConceptRecords ==
    {[Name |-> n, Body |-> b] : n \in Names, b \in Bodies}
    \cup {[Name |-> n, SubLemas |-> sl, Body |-> b] :
             n \in Names, sl \in SubLemasChoices, b \in Bodies}

DocAlphabet == {"a", "s", " "}

NoTermStudy ==
    /\ expression = <<>>
    /\ text = <<>>
    /\ inflections = <<>>
    /\ patterns = <<>>
    /\ matches = <<>>
    /\ data = <<>>
    /\ filtered_data = <<>>

\* execute_annotator after json.load, before the first file
InitAnnotator(paths, lexicons, texts) ==
    /\ pc = "idle"
    /\ dje_data \in lexicons
    /\ files \in [paths -> texts]
    /\ todo = paths
    /\ path = ""
    /\ record = 0
    /\ resultados = <<>>
    /\ ind = 0
    /\ cursor = 0
    /\ out = [p \in {} |-> <<>>]
    /\ NoTermStudy

(***************************************************************************)
(* Specification of the annotation of one document.                        *)
(***************************************************************************)
Init ==
    InitAnnotator({"1.txt"}, StringsUpTo(ConceptRecords, MaxEntries),
                  StringsUpTo(DocAlphabet, MaxDocLen))

Next == NextAnnotator

Spec == Init /\ [][Next]_vars

\* execute_annotator is not running
NoAnnotator ==
    /\ dje_data = <<>>
    /\ files = <<>>
    /\ todo = {}
    /\ path = ""
    /\ record = 0
    /\ resultados = <<>>
    /\ ind = 0
    /\ cursor = 0
    /\ out = <<>>

(***************************************************************************)
(* Specification of the inflection and pattern functions.                  *)
(***************************************************************************)
ExprAlphabet == {"a", "á", "z", "y", "A", " "}

InitInflect ==
    /\ pc = "input"
    /\ expression \in StringsUpTo(ExprAlphabet, MaxExprLen)
    /\ text = <<>>
    /\ inflections = <<>>
    /\ patterns = <<>>
    /\ matches = <<>>
    /\ data = <<>>
    /\ filtered_data = <<>>
    /\ NoAnnotator

\* generate_inflections applied to a single word
GenerateInflections ==
    /\ pc = "input"
    /\ \A i \in 1..Len(expression) : expression[i] \notin Whitespace
    /\ inflections' = generate_inflections(expression)
    /\ pc' = "inflected"
    /\ UNCHANGED <<expression, text, patterns, matches, resolverVars, annotatorVars>>

BuildInflectedPatterns ==
    /\ pc = "input"
    /\ patterns' = build_inflected_patterns(expression)
    /\ pc' = "built"
    /\ UNCHANGED <<expression, text, inflections, matches, resolverVars, annotatorVars>>

NextInflect == GenerateInflections \/ BuildInflectedPatterns

SpecInflect == InitInflect /\ [][NextInflect]_vars

(***************************************************************************)
(* C6: generate_inflections returns [word, plural], the plural chosen by   *)
(* the first rule that applies to the last character: unaccented vowel ->  *)
(* word + "s"; accented vowel -> word without its last character + "es";   *)
(* "z" -> word without its last character + "ces"; otherwise word + "es".  *)
(***************************************************************************)
C6_Plural(w) ==
    LET last == IF w = <<>> THEN "" ELSE w[Len(w)]
        stem == IF w = <<>> THEN <<>> ELSE SubSeq(w, 1, Len(w) - 1)
    IN  CASE last \in {"a", "e", "i", "o", "u"} -> w \o <<"s">>
          [] last \in {"á", "é", "í", "ó", "ú"} -> stem \o <<"e", "s">>
          [] last = "z" -> stem \o <<"c", "e", "s">>
          [] OTHER -> w \o <<"e", "s">>

C6_InflectionRules ==
    pc = "inflected" => inflections = <<expression, C6_Plural(expression)>>

C6_Witness ==
    /\ pc = "inflected"
    /\ Len(expression) = 2
    /\ expression[2] = "á"
    /\ inflections = <<expression, <<expression[1], "e", "s">>>>

(***************************************************************************)
(* C5: for an expression of N >= 1 whitespace-separated words,             *)
(* build_inflected_patterns returns exactly 2 patterns: the N base words   *)
(* joined by single spaces, and the N plural forms joined by single        *)
(* spaces.                                                                 *)
(***************************************************************************)
C5_TwoPositionalPatterns ==
    LET words == split(expression)
    IN  (pc = "built" /\ Len(words) >= 1) =>
            patterns = <<JoinSpace(words),
                         JoinSpace([w \in 1..Len(words) |-> C6_Plural(words[w])])>>

(***************************************************************************)
(* Specification of the matcher.                                           *)
(***************************************************************************)
TextAlphabet == {"a", "A", "s", "e", "c", "z", " "}
TermAlphabet == {"a", "A", "z", " "}

InitMatch ==
    /\ pc = "input"
    /\ expression \in StringsUpTo(TermAlphabet, MaxTermLen)
    /\ text \in StringsUpTo(TextAlphabet, MaxTextLen)
    /\ inflections = <<>>
    /\ patterns = <<>>
    /\ matches = <<>>
    /\ data = <<>>
    /\ filtered_data = <<>>
    /\ NoAnnotator

FindOffsetsAndForms ==
    /\ pc = "input"
    /\ patterns' = build_inflected_patterns(expression)
    /\ matches' = find_offsets_and_forms(text, expression)
    /\ pc' = "matched"
    /\ UNCHANGED <<expression, text, inflections, resolverVars, annotatorVars>>

NextMatch == FindOffsetsAndForms

SpecMatch == InitMatch /\ [][NextMatch]_vars

C4_LowerStr(s) == [k \in 1..Len(s) |-> Lower(s[k])]

C4_IsAlnum(c) == c \in Letters

C9_CaseVariants(w) ==
    {v \in [1..Len(w) -> Letters] : \A k \in 1..Len(w) : Lower(v[k]) = Lower(w[k])}

C9_CaseIrrelevant ==
    (/\ pc = "matched"
     /\ expression # <<>>
     /\ \A i \in 1..Len(expression) : expression[i] \in Letters)
    => \A v \in C9_CaseVariants(expression) :
           find_offsets_and_forms(text, v) = matches

(***************************************************************************)
(* Specification of the overlap resolver.                                  *)
(***************************************************************************)
ResolverWords == {<<"A">>, <<"B">>, <<"C">>}

Spans == {o \in (0..MaxPos) \X (0..MaxPos) : o[1] < o[2]}

\* the sequences of pairwise distinct words
KeyOrders == {ks \in StringsUpTo(ResolverWords, Cardinality(ResolverWords)) :
                \A i, j \in 1..Len(ks) : i # j => ks[i] # ks[j]}

RECURSIVE SumTo(_, _)
SumTo(c, k) == IF k = 0 THEN 0 ELSE c[k] + SumTo(c, k - 1)

\* the dict of the words ks whose offsets are the consecutive pieces, of
\* lengths c, of the sequence of spans flat
DictOf(ks, flat, c) ==
    [i \in 1..Len(ks) |->
        [word |-> ks[i],
         offsets |-> SubSeq(flat, SumTo(c, i - 1) + 1, SumTo(c, i))]]

\* data is any dict of at most MaxSpans spans in all
InitResolve ==
    /\ pc = "input"
    /\ \E flat \in StringsUpTo(Spans, MaxSpans) :
           \E ks \in KeyOrders :
               \E c \in [1..Len(ks) -> 0..Len(flat)] :
                   /\ SumTo(c, Len(ks)) = Len(flat)
                   /\ data = DictOf(ks, flat, c)
    /\ filtered_data = <<>>
    /\ expression = <<>>
    /\ text = <<>>
    /\ inflections = <<>>
    /\ patterns = <<>>
    /\ matches = <<>>
    /\ NoAnnotator

FilterOffsetsAcrossWords ==
    /\ pc = "input"
    /\ filtered_data' = filter_offsets_across_words(data)
    /\ pc' = "filtered"
    /\ UNCHANGED <<data, termVars, annotatorVars>>

NextResolve == FilterOffsetsAcrossWords

SpecResolve == InitResolve /\ [][NextResolve]_vars

\* some span recorded under a word other than d[i].word contains span o
C1_InOtherWord(d, i, o) ==
    \E j \in 1..Len(d) :
        /\ d[j].word # d[i].word
        /\ \E m \in 1..Len(d[j].offsets) :
               o[1] >= d[j].offsets[m][1] /\ o[2] <= d[j].offsets[m][2]

(***************************************************************************)
(* C1: filter_offsets_across_words returns the input's keys and, under     *)
(* each, in their original order, exactly the spans that no span recorded  *)
(* under a different key contains (start1 >= start2 and end1 <= end2),     *)
(* whatever the lengths and whatever the spans of the same key.            *)
(***************************************************************************)
C1_DropsExactlyContained ==
    pc = "filtered" =>
        /\ Len(filtered_data) = Len(data)
        /\ \A i \in 1..Len(data) :
               /\ filtered_data[i].word = data[i].word
               /\ filtered_data[i].offsets =
                      SelectSeq(data[i].offsets, LAMBDA o : ~C1_InOtherWord(data, i, o))

\* an identical span under two keys is removed from both, while a span that
\* only a span of its own key contains is kept
C1_Witness ==
    /\ pc = "filtered"
    /\ Len(data) = 2
    /\ data[1].offsets = << <<0, 1>>, <<0, 2>> >>
    /\ data[2].offsets = << <<0, 1>> >>
    /\ filtered_data[1].offsets = << <<0, 2>> >>
    /\ filtered_data[2].offsets = <<>>

(***************************************************************************)
(* Specification of the annotation of two documents with one lexicon.      *)
(***************************************************************************)
TwoDocsAlphabet == {"a", " "}

InitDocs ==
    InitAnnotator({"1.txt", "2.txt"}, [1..1 -> ConceptRecords],
                  StringsUpTo(TwoDocsAlphabet, MaxDocLen))

SpecDocs == InitDocs /\ [][NextAnnotator]_vars

\* the text of the file being annotated
CurrentText == files[path]

(***************************************************************************)
(* C2: every (key, span) pair of the index search_in_dle builds from an    *)
(* empty index and returns satisfies text[span.start:span.end] == key.     *)
(***************************************************************************)
C2_KeyIsSubstring ==
    pc \in {"scan", "write"} =>
        \A i \in 1..Len(resultados) :
            \A m \in 1..Len(resultados[i].offsets) :
                LET o == resultados[i].offsets[m]
                IN  /\ 0 <= o[1] /\ o[1] <= o[2] /\ o[2] <= Len(CurrentText)
                    /\ SubSeq(CurrentText, o[1] + 1, o[2]) = resultados[i].word

\* the lexicon says "A ", the text and the returned key "a "
C2_Witness ==
    /\ pc = "write"
    /\ Len(dje_data) = 1
    /\ dje_data[1].Name = <<"A", " ">>
    /\ \E i \in 1..Len(resultados) :
           resultados[i].word = <<"a", " ">> /\ resultados[i].offsets # <<>>

\* the matches of one entry: none when no Body record has the filter's Type,
\* else those of each SubLemas text, in order, then those of the Name
RECURSIVE C3_SubMatches(_, _)
C3_SubMatches(sublemas, txt) ==
    IF sublemas = <<>>
    THEN <<>>
    ELSE find_offsets_and_forms(txt, Head(sublemas).Text) \o C3_SubMatches(Tail(sublemas), txt)

C3_EntryMatches(entry, txt) ==
    IF \A b \in 1..Len(entry.Body) : entry.Body[b].Type # termtype
    THEN <<>>
    ELSE (IF "SubLemas" \in DOMAIN entry THEN C3_SubMatches(entry.SubLemas, txt) ELSE <<>>)
         \o find_offsets_and_forms(txt, entry.Name)

RECURSIVE C3_AllMatches(_, _, _)
\* the matches of the first n entries, in lexicon order
C3_AllMatches(lex, txt, n) ==
    IF n = 0 THEN <<>> ELSE C3_AllMatches(lex, txt, n - 1) \o C3_EntryMatches(lex[n], txt)

\* keys in the order of their first match; under each key every span matched
\* with that form, in match order, repeated as often as it was matched
C3_Grouped(ms) ==
    LET first == SelectSeq([k \in 1..Len(ms) |-> k],
                           LAMBDA k : \A j \in 1..(k - 1) : ms[j][2] # ms[k][2])
        spansOf(form) == LET mine == SelectSeq(ms, LAMBDA m : m[2] = form)
                         IN  [k \in 1..Len(mine) |-> mine[k][1]]
    IN  [k \in 1..Len(first) |->
            [word |-> ms[first[k]][2], offsets |-> spansOf(ms[first[k]][2])]]

\* the overlap resolver as C1 states it
C3_Resolved(d) ==
    [i \in 1..Len(d) |->
        [word |-> d[i].word,
         offsets |-> SelectSeq(d[i].offsets, LAMBDA o : ~C1_InOtherWord(d, i, o))]]

(***************************************************************************)
(* C3: search_in_dle accumulates, for each eligible entry in lexicon       *)
(* order, the matches of every SubLemas text and then of the Name, each    *)
(* span appended under its surface form without deduplication, entries     *)
(* without the filter's Type contributing nothing; the overlap resolver    *)
(* is applied once, to the accumulation of the whole lexicon.              *)
(***************************************************************************)
C3_AccumulateThenResolveOnce ==
    /\ pc = "scan" =>
           resultados = C3_Grouped(C3_AllMatches(dje_data, CurrentText, record - 1))
    /\ pc = "write" =>
           resultados = C3_Resolved(C3_Grouped(C3_AllMatches(dje_data, CurrentText, Len(dje_data))))

\* a skipped entry, an entry with SubLemas, and a span kept twice under one key
C3_Witness ==
    /\ pc = "write"
    /\ Len(dje_data) = 2
    /\ C3_EntryMatches(dje_data[1], CurrentText) = <<>>
    /\ find_offsets_and_forms(CurrentText, dje_data[1].Name) # <<>>
    /\ "SubLemas" \in DOMAIN dje_data[2]
    /\ \E i \in 1..Len(resultados) :
           \E m, n \in 1..Len(resultados[i].offsets) :
               m # n /\ resultados[i].offsets[m] = resultados[i].offsets[n]

RECURSIVE C7_Before(_, _)
\* the number of pairs held by the keys before the i-th
C7_Before(d, i) == IF i <= 1 THEN 0 ELSE C7_Before(d, i - 1) + Len(d[i - 1].offsets)

C7_Trimmed(w) ==
    LET solid == {k \in 1..Len(w) : w[k] \notin Whitespace}
    IN  IF solid = {}
        THEN <<>>
        ELSE SubSeq(w, Min(solid), CHOOSE k \in solid : \A j \in solid : j <= k)

\* one line per (key, span) pair, keys in insertion order, spans in list order
C7_Lines(d) ==
    [k \in 1..C7_Before(d, Len(d) + 1) |->
        LET i == CHOOSE i \in 1..Len(d) : C7_Before(d, i) < k /\ k <= C7_Before(d, i + 1)
            o == d[i].offsets[k - C7_Before(d, i)]
        IN  [term_id |-> <<"T", k>>, term_type |-> "concept",
             start |-> o[1], end |-> o[2], text |-> C7_Trimmed(d[i].word)]]

(***************************************************************************)
(* C7: the write loop emits one line per (key, span) pair of the filtered  *)
(* index, keys in insertion order and spans in list order; the k-th line   *)
(* carries identifier T<k>, the category "concept", the span's start and   *)
(* end and the trimmed key; keys with no span emit nothing.                *)
(***************************************************************************)
C7_OneLinePerPair ==
    /\ pc = "write" =>
           /\ Len(out[path]) = cursor
           /\ out[path] = SubSeq(C7_Lines(resultados), 1, cursor)
    /\ (pc = "idle" /\ path # "") => out[path] = C7_Lines(resultados)

\* two lines, T1 and T2, the second for the key "a " written as "a"
C7_Witness ==
    /\ pc = "idle"
    /\ path # ""
    /\ Len(resultados) = 2
    /\ resultados[2].word = <<"a", " ">>
    /\ Len(out[path]) = 2
    /\ out[path][1].term_id = <<"T", 1>>
    /\ out[path][2].term_id = <<"T", 2>>
    /\ out[path][2].text = <<"a">>

\* the lines of a document annotated alone, from an empty index
C8_Alone(lex, txt) ==
    C7_Lines(C3_Resolved(C3_Grouped(C3_AllMatches(lex, txt, Len(lex)))))

(***************************************************************************)
(* C8: the lines written for a document depend only on the lexicon and     *)
(* that document's text, whatever documents were processed before it and   *)
(* in whatever order, and every document's identifiers start at T1.        *)
(***************************************************************************)
C8_DocumentsIndependent ==
    \A p \in DOMAIN out :
        (p # path \/ pc = "idle") =>
            /\ out[p] = C8_Alone(dje_data, files[p])
            /\ out[p] # <<>> => out[p][1].term_id = <<"T", 1>>
            /\ \A q \in DOMAIN out :
                   ((q # path \/ pc = "idle") /\ files[q] = files[p]) => out[q] = out[p]

\* both documents written, the second one after a document that left matches
C8_Witness ==
    /\ pc = "idle"
    /\ todo = {}
    /\ path = "1.txt"
    /\ out["2.txt"] # <<>>
    /\ out["1.txt"] # <<>>
    /\ out["1.txt"] # out["2.txt"]

\* span o lies within span c
C10_Within(o, c) == o[1] >= c[1] /\ o[2] <= c[2]

(***************************************************************************)
(* C10: in the index search_in_dle accumulates over one text, no two       *)
(* different keys hold an identical span, so a span that a different key's *)
(* span contains is contained in a strictly longer one.                    *)
(***************************************************************************)
C10_ContainerStrictlyLonger ==
    pc = "scan" =>
        \A i, j \in 1..Len(resultados) :
            i # j =>
                \A m \in 1..Len(resultados[i].offsets) :
                    \A n \in 1..Len(resultados[j].offsets) :
                        LET o == resultados[i].offsets[m]
                            c == resultados[j].offsets[n]
                        IN  /\ o # c
                            /\ C10_Within(o, c) => c[2] - c[1] > o[2] - o[1]

\* the whole lexicon scanned, and a span about to be dropped
C10_Witness ==
    /\ pc = "scan"
    /\ record > Len(dje_data)
    /\ \E i, j \in 1..Len(resultados) :
           /\ i # j
           /\ \E m \in 1..Len(resultados[i].offsets) :
                  \E n \in 1..Len(resultados[j].offsets) :
                      C10_Within(resultados[i].offsets[m], resultados[j].offsets[n])

====
